---- MODULE Spec2Model ----
(***************************************************************************)
(* Orientation conversion library of 3d-math-primer (chap10): scalar       *)
(* helpers, EulerAngles, Quaternion and RotationMatrix.                    *)
(*                                                                         *)
(* Numbers.  Every f64 of the program is a fixed-point integer with four   *)
(* decimals: the integer n stands for the real n / FX_ONE, angles are in   *)
(* radians (31416 is pi).  Sums, differences and comparisons are exact;    *)
(* a product or quotient is rounded to the nearest representable value;    *)
(* sin, cos, atan2, asin and sqrt are computed to that resolution.         *)
(*                                                                         *)
(* State.  The library is a set of pure functions and in-place setters on  *)
(* small values, so the state is the call at hand: op is the operation     *)
(* last performed, args its inputs (for a &mut self method the receiver    *)
(* before the call) and ret its result (the receiver after the call).      *)
(***************************************************************************)
EXTENDS Integers, Sequences, FiniteSets

VARIABLES op, args, ret

vars == <<op, args, ret>>

----------------------------------------------------------------------------
(* Fixed-point arithmetic *)

\* 1.0 in fixed point
FX_ONE == 10000

Abs(x) == IF x < 0 THEN -x ELSE x

\* a * b, rounded to nearest; split so that no intermediate exceeds 32 bits
FxMul(a, b) == a * (b \div FX_ONE) + ((a * (b % FX_ONE) + FX_ONE \div 2) \div FX_ONE)

\* a / b (b # 0), rounded to nearest
FxDiv(a, b) ==
    LET n == a * FX_ONE
        q == (2 * Abs(n) + Abs(b)) \div (2 * Abs(b))
    IN IF (n < 0) = (b < 0) THEN q ELSE -q

\* std::f64::consts::PI
PI == 31416

\* utils.rs constants
PI2 == PI * 2
PI_OVER_2 == PI \div 2

----------------------------------------------------------------------------
(* f64 library functions, to fixed-point resolution *)

\* a * b / 10^8 for a, b >= 0 held with eight decimals
Mul8(a, b) ==
    LET ah == a \div FX_ONE
        al == a % FX_ONE
        bh == b \div FX_ONE
        bl == b % FX_ONE
    IN ah * bh + ((ah * bl + al * bh + ((al * bl) \div FX_ONE)) \div FX_ONE)

\* x - x^3/3! + x^5/5! - ... to the x^15 term, with eight decimals
RECURSIVE SinSeries(_, _, _, _)
SinSeries(term, x2, k, acc) ==
    IF k > 7 THEN acc
    ELSE LET t == Mul8(term, x2) \div ((2 * k) * (2 * k + 1))
         IN SinSeries(t, x2, k + 1, IF k % 2 = 1 THEN acc - t ELSE acc + t)

\* sin of an angle in [0, pi/2]
SinQuadrant(x) ==
    LET x8 == x * FX_ONE
    IN (SinSeries(x8, Mul8(x8, x8), 1, x8) + FX_ONE \div 2) \div FX_ONE

\* f64::sin
Sin(a) ==
    LET r == ((a + PI) % PI2) - PI
        m == IF Abs(r) > PI_OVER_2 THEN PI - Abs(r) ELSE Abs(r)
    IN IF r < 0 THEN -SinQuadrant(m) ELSE SinQuadrant(m)

\* f64::cos
Cos(a) == Sin(a + PI_OVER_2)

\* f64::sin_cos: <<sin, cos>>; Rust's .0 and .1 are [1] and [2]
SinCos(a) == <<Sin(a), Cos(a)>>

\* largest r in lo..hi with r * r <= n
RECURSIVE IsqrtSearch(_, _, _)
IsqrtSearch(n, lo, hi) ==
    IF lo >= hi THEN lo
    ELSE LET mid == (lo + hi + 1) \div 2
         IN IF mid * mid <= n THEN IsqrtSearch(n, mid, hi) ELSE IsqrtSearch(n, lo, mid - 1)

\* f64::sqrt for 0 <= v, rounded to nearest
Sqrt(v) ==
    LET n == v * FX_ONE
        r == IsqrtSearch(n, 0, 46340)
    IN IF n - r * r > r THEN r + 1 ELSE r

\* least a in lo..hi at which the ray (ay, ax) is not above the angle a
RECURSIVE AtanSearch(_, _, _, _)
AtanSearch(ay, ax, lo, hi) ==
    IF lo >= hi THEN lo
    ELSE LET mid == (lo + hi) \div 2
         IN IF ay * Cos(mid) - ax * Sin(mid) <= 0
            THEN AtanSearch(ay, ax, lo, mid)
            ELSE AtanSearch(ay, ax, mid + 1, hi)

\* f64::atan2 (self = y, argument = x): the angle of the ray (x, y) in (-pi, pi]
Atan2(y, x) ==
    IF x = 0 /\ y = 0 THEN 0
    ELSE LET ay == Abs(y)
             ax == Abs(x)
             Off(a) == Abs(ay * Cos(a) - ax * Sin(a))
             a1 == AtanSearch(ay, ax, 0, PI_OVER_2)
             a2 == IF a1 > 0 /\ Off(a1 - 1) < Off(a1) THEN a1 - 1 ELSE a1
             a3 == IF x < 0 THEN PI - a2 ELSE a2
         IN IF y < 0 THEN -a3 ELSE a3

\* f64::asin for -1 <= s <= 1
Asin(s) == Atan2(s, Sqrt(FX_ONE - FxMul(s, s)))

----------------------------------------------------------------------------
(* utils.rs: GameMath for f64 *)

\* (self * ONE_OVER_2PI).floor(): the number of whole turns below self
TurnsFloor(a) == a \div PI2

wrap_pi(a) ==
    LET r1 == a + PI
        r2 == r1 - TurnsFloor(a) * PI2
    IN r2 - PI

----------------------------------------------------------------------------
(* euler_angles.rs: EulerAngles *)

Euler(h, p, b) == [heading |-> h, pitch |-> p, bank |-> b]

\* the 1e-4 of the gimbal-lock test in canonize
CANONIZE_TOL == 1

canonize(e) ==
    LET p1 == wrap_pi(e.pitch)
        below == p1 < -PI_OVER_2
        above == ~below /\ p1 > PI_OVER_2
        p2 == IF below THEN -PI - p1 ELSE IF above THEN PI - p1 ELSE p1
        h2 == IF below \/ above THEN e.heading + PI ELSE e.heading
        b2 == IF below \/ above THEN e.bank + PI ELSE e.bank
        locked == Abs(p2) > PI_OVER_2 - CANONIZE_TOL
        h3 == IF locked THEN h2 + b2 ELSE h2
        b3 == IF locked THEN 0 ELSE wrap_pi(b2)
    IN Euler(wrap_pi(h3), p2, b3)

----------------------------------------------------------------------------
(* quaternion.rs: Quaternion *)

Quat(w, x, y, z) == [w |-> w, x |-> x, y |-> y, z |-> z]

QuatNeg(q) == Quat(-q.w, -q.x, -q.y, -q.z)

dot(a, b) == FxMul(a.w, b.w) + FxMul(a.x, b.x) + FxMul(a.y, b.y) + FxMul(a.z, b.z)

\* the 0.9999 above which slerp interpolates linearly
SLERP_LINEAR == 9999

\* the weights <<k0, k1>> slerp computes from cos_omega and t
SlerpWeights(cos_omega, t) ==
    IF cos_omega > SLERP_LINEAR
    THEN <<FX_ONE - t, t>>
    ELSE LET sin_omega == Sqrt(FX_ONE - FxMul(cos_omega, cos_omega))
             omega == Atan2(sin_omega, cos_omega)
             one_over_sign_omega == FxDiv(FX_ONE, sin_omega)
         IN << Sin(FxMul(FxMul(FX_ONE - t, omega), one_over_sign_omega)),
               Sin(FxMul(FxMul(t, omega), one_over_sign_omega)) >>

\* k0 * a + k1 * b, component by component
Blend(k0, a, k1, b) ==
    Quat(FxMul(k0, a.w) + FxMul(k1, b.w),
         FxMul(k0, a.x) + FxMul(k1, b.x),
         FxMul(k0, a.y) + FxMul(k1, b.y),
         FxMul(k0, a.z) + FxMul(k1, b.z))

\* slerp with the end tests written t < 0 and t > 1: the ends themselves
\* fall through to the blend
slerp_open_ends(self, other, t) ==
    IF t < 0 THEN self
    ELSE IF t > FX_ONE THEN other
    ELSE LET d == dot(self, other)
             cos_omega == IF d < 0 THEN -d ELSE d
             k == SlerpWeights(cos_omega, t)
         IN Blend(k[1], self, k[2], other)

\* self.slerp(other, t)
slerp(self, other, t) ==
    IF t <= 0 THEN self
    ELSE IF t >= FX_ONE THEN other
    ELSE LET d == dot(self, other)
             \* the locals w, x, y, z take the negated components of self
             \* when d < 0; the returned blend reads self and other
             w == IF d < 0 THEN -self.w ELSE self.w
             x == IF d < 0 THEN -self.x ELSE self.x
             y == IF d < 0 THEN -self.y ELSE self.y
             z == IF d < 0 THEN -self.z ELSE self.z
             cos_omega == IF d < 0 THEN -d ELSE d
             k == SlerpWeights(cos_omega, t)
         IN Blend(k[1], self, k[2], other)

\* impl Mul for Quaternion: self * rhs
Quaternion_mul(self, rhs) ==
    Quat(FxMul(self.w, rhs.w) - FxMul(self.x, rhs.x) - FxMul(self.y, rhs.y) - FxMul(self.z, rhs.z),
         FxMul(self.w, rhs.x) + FxMul(self.x, rhs.w) + FxMul(self.z, rhs.y) - FxMul(self.y, rhs.z),
         FxMul(self.w, rhs.y) + FxMul(self.y, rhs.w) + FxMul(self.x, rhs.z) - FxMul(self.z, rhs.x),
         FxMul(self.w, rhs.z) + FxMul(self.z, rhs.w) + FxMul(self.y, rhs.x) - FxMul(self.x, rhs.y))

----------------------------------------------------------------------------
(* vector.rs: V3 *)

V3(x, y, z) == [x |-> x, y |-> y, z |-> z]

mag(v) == Sqrt(FxMul(v.x, v.x) + FxMul(v.y, v.y) + FxMul(v.z, v.z))

\* cross with the two products of the y component exchanged
cross_y_exchanged(self, rhs) ==
    V3(FxMul(self.y, rhs.z) - FxMul(self.z, rhs.y),
       FxMul(self.x, rhs.z) - FxMul(self.z, rhs.x),
       FxMul(self.x, rhs.y) - FxMul(self.y, rhs.x))

cross(self, rhs) ==
    V3(FxMul(self.y, rhs.z) - FxMul(self.z, rhs.y),
       FxMul(self.z, rhs.x) - FxMul(self.x, rhs.z),
       FxMul(self.x, rhs.y) - FxMul(self.y, rhs.x))

----------------------------------------------------------------------------
(* quaternion.rs: Quaternion, setters *)

\* the 0.01 of rotate_axis' assertion
AXIS_TOL == 100

\* the assert! of rotate_axis: TRUE when the call goes on
rotate_axis_assert(axis) == Abs(mag(axis)) - FX_ONE < AXIS_TOL

\* &mut self: panicked tells whether the assertion aborted the call, q is
\* the receiver after it
rotate_axis(self, axis, theta) ==
    IF ~rotate_axis_assert(axis)
    THEN [panicked |-> TRUE, q |-> self]
    ELSE LET theta_over_2 == FxMul(theta, 5000)
             sin_theta_over_2 == Sin(theta_over_2)
         IN [panicked |-> FALSE,
             q |-> Quat(Cos(theta_over_2),
                        FxMul(axis.x, sin_theta_over_2),
                        FxMul(axis.y, sin_theta_over_2),
                        FxMul(axis.z, sin_theta_over_2))]

\* normalize with the square root left out of the magnitude
normalize_no_sqrt(self) ==
    LET magnitude == FxMul(self.w, self.w) + FxMul(self.x, self.x)
                         + FxMul(self.y, self.y) + FxMul(self.z, self.z)
    IN IF magnitude > 0
       THEN LET one_over_mag == FxDiv(FX_ONE, magnitude)
            IN Quat(FxMul(self.w, one_over_mag), FxMul(self.x, one_over_mag),
                    FxMul(self.y, one_over_mag), FxMul(self.z, one_over_mag))
       ELSE self

\* &mut self: the receiver after the call
normalize(self) ==
    LET magnitude == Sqrt(FxMul(self.w, self.w) + FxMul(self.x, self.x)
                              + FxMul(self.y, self.y) + FxMul(self.z, self.z))
    IN IF magnitude > 0
       THEN LET one_over_mag == FxDiv(FX_ONE, magnitude)
            IN Quat(FxMul(self.w, one_over_mag), FxMul(self.x, one_over_mag),
                    FxMul(self.y, one_over_mag), FxMul(self.z, one_over_mag))
       ELSE self

----------------------------------------------------------------------------
(* matrix.rs: RotationMatrix *)

Rot(m11, m12, m13, m21, m22, m23, m31, m32, m33) ==
    [m11 |-> m11, m12 |-> m12, m13 |-> m13,
     m21 |-> m21, m22 |-> m22, m23 |-> m23,
     m31 |-> m31, m32 |-> m32, m33 |-> m33]

\* a * b * c as Rust evaluates it, left to right
FxMul3(a, b, c) == FxMul(FxMul(a, b), c)

\* from_orientation with the sign of the first term of m12 lost
from_orientation_m12_sign(orientation) ==
    LET p == SinCos(orientation.pitch)
        b == SinCos(orientation.bank)
        h == SinCos(orientation.heading)
    IN Rot(FxMul(h[2], b[2]) + FxMul3(h[1], p[1], b[1]),
           FxMul(h[2], b[1]) + FxMul3(h[1], p[1], b[2]),
           FxMul(h[1], p[2]),
           FxMul(b[1], p[2]),
           FxMul(b[2], p[2]),
           -p[1],
           FxMul(-h[1], b[2]) + FxMul3(h[2], p[1], b[1]),
           FxMul(b[1], h[1]) + FxMul3(h[2], p[1], b[2]),
           FxMul(h[2], p[2]))

from_orientation(orientation) ==
    LET p == SinCos(orientation.pitch)
        b == SinCos(orientation.bank)
        h == SinCos(orientation.heading)
    IN Rot(FxMul(h[2], b[2]) + FxMul3(h[1], p[1], b[1]),
           FxMul(-h[2], b[1]) + FxMul3(h[1], p[1], b[2]),
           FxMul(h[1], p[2]),
           FxMul(b[1], p[2]),
           FxMul(b[2], p[2]),
           -p[1],
           FxMul(-h[1], b[2]) + FxMul3(h[2], p[1], b[1]),
           FxMul(b[1], h[1]) + FxMul3(h[2], p[1], b[2]),
           FxMul(h[2], p[2]))

RotationMatrix_from_inertial_to_obj_quaternion(q) ==
    Rot(FX_ONE - 2 * (FxMul(q.y, q.y) + FxMul(q.z, q.z)),
        2 * (FxMul(q.x, q.y) + FxMul(q.w, q.z)),
        2 * (FxMul(q.x, q.z) - FxMul(q.w, q.y)),
        2 * (FxMul(q.x, q.y) - FxMul(q.w, q.z)),
        FX_ONE - 2 * (FxMul(q.x, q.x) + FxMul(q.z, q.z)),
        2 * (FxMul(q.y, q.z) + FxMul(q.w, q.x)),
        2 * (FxMul(q.x, q.z) + FxMul(q.w, q.y)),
        2 * (FxMul(q.y, q.z) - FxMul(q.w, q.x)),
        FX_ONE - 2 * (FxMul(q.x, q.x) + FxMul(q.y, q.y)))

\* from_obj_to_inertial_quaternion with q.w * q.z of m12 written q.w
RotationMatrix_from_obj_to_inertial_quaternion_m12(q) ==
    Rot(FX_ONE - 2 * (FxMul(q.y, q.y) + FxMul(q.z, q.z)),
        2 * (FxMul(q.x, q.y) - q.w),
        2 * (FxMul(q.x, q.z) + FxMul(q.w, q.y)),
        2 * (FxMul(q.x, q.y) + FxMul(q.w, q.z)),
        FX_ONE - 2 * (FxMul(q.x, q.x) + FxMul(q.z, q.z)),
        2 * (FxMul(q.y, q.z) - FxMul(q.w, q.x)),
        2 * (FxMul(q.x, q.z) - FxMul(q.w, q.y)),
        2 * (FxMul(q.y, q.z) + FxMul(q.w, q.x)),
        FX_ONE - 2 * (FxMul(q.x, q.x) + FxMul(q.y, q.y)))

RotationMatrix_from_obj_to_inertial_quaternion(q) ==
    Rot(FX_ONE - 2 * (FxMul(q.y, q.y) + FxMul(q.z, q.z)),
        2 * (FxMul(q.x, q.y) - FxMul(q.w, q.z)),
        2 * (FxMul(q.x, q.z) + FxMul(q.w, q.y)),
        2 * (FxMul(q.x, q.y) + FxMul(q.w, q.z)),
        FX_ONE - 2 * (FxMul(q.x, q.x) + FxMul(q.z, q.z)),
        2 * (FxMul(q.y, q.z) - FxMul(q.w, q.x)),
        2 * (FxMul(q.x, q.z) - FxMul(q.w, q.y)),
        2 * (FxMul(q.y, q.z) + FxMul(q.w, q.x)),
        FX_ONE - 2 * (FxMul(q.x, q.x) + FxMul(q.y, q.y)))

inertial_to_obj(m, v) ==
    V3(FxMul(m.m11, v.x) + FxMul(m.m21, v.y) + FxMul(m.m31, v.z),
       FxMul(m.m12, v.x) + FxMul(m.m22, v.y) + FxMul(m.m32, v.z),
       FxMul(m.m13, v.x) + FxMul(m.m23, v.y) + FxMul(m.m33, v.z))

obj_to_inertial(m, v) ==
    V3(FxMul(m.m11, v.x) + FxMul(m.m12, v.y) + FxMul(m.m13, v.z),
       FxMul(m.m31, v.x) + FxMul(m.m22, v.y) + FxMul(m.m23, v.z),
       FxMul(m.m31, v.x) + FxMul(m.m32, v.y) + FxMul(m.m33, v.z))

----------------------------------------------------------------------------
(* matrix.rs: Matrix3x4 *)

Mat34(m11, m12, m13, m21, m22, m23, m31, m32, m33, tx, ty, tz) ==
    [m11 |-> m11, m12 |-> m12, m13 |-> m13,
     m21 |-> m21, m22 |-> m22, m23 |-> m23,
     m31 |-> m31, m32 |-> m32, m33 |-> m33,
     tx |-> tx, ty |-> ty, tz |-> tz]

indentity ==
    Mat34(FX_ONE, 0, 0,
          0, FX_ONE, 0,
          0, 0, FX_ONE,
          0, 0, 0)

from_local_to_parent_matrix(pos, orient) ==
    Mat34(orient.m11, orient.m21, orient.m31,
          orient.m12, orient.m22, orient.m32,
          orient.m13, orient.m23, orient.m33,
          pos.x, pos.y, pos.z)

from_local_to_parent_euler(pos, orient) ==
    LET orient_mat == from_orientation(orient)
    IN from_local_to_parent_matrix(pos, orient_mat)

from_parent_to_local_matrix(pos, orient) ==
    Mat34(orient.m11, orient.m12, orient.m13,
          orient.m21, orient.m22, orient.m23,
          orient.m31, orient.m32, orient.m33,
          -(FxMul(pos.x, orient.m11) + FxMul(pos.y, orient.m21) + FxMul(pos.z, orient.m31)),
          -(FxMul(pos.x, orient.m12) + FxMul(pos.y, orient.m22) + FxMul(pos.z, orient.m32)),
          -(FxMul(pos.x, orient.m13) + FxMul(pos.y, orient.m23) + FxMul(pos.z, orient.m33)))

from_parent_to_local_euler(pos, orient) ==
    LET orient_mat == from_orientation(orient)
    IN from_parent_to_local_matrix(pos, orient_mat)

\* impl Mul<Matrix3x4> for V3: self * rhs
V3_mul_Matrix3x4(self, rhs) ==
    V3(FxMul(self.x, rhs.m11) + FxMul(self.y, rhs.m21) + FxMul(self.z, rhs.m31) + rhs.tx,
       FxMul(self.x, rhs.m12) + FxMul(self.y, rhs.m22) + FxMul(self.z, rhs.m32) + rhs.ty,
       FxMul(self.x, rhs.m13) + FxMul(self.y, rhs.m23) + FxMul(self.z, rhs.m33) + rhs.tz)

\* impl Mul<Matrix3x4> for Matrix3x4: self * rhs
Matrix3x4_mul(self, rhs) ==
    Mat34(FxMul(self.m11, rhs.m11) + FxMul(self.m12, rhs.m21) + FxMul(self.m13, rhs.m31),
          FxMul(self.m11, rhs.m12) + FxMul(self.m12, rhs.m22) + FxMul(self.m13, rhs.m32),
          FxMul(self.m11, rhs.m13) + FxMul(self.m12, rhs.m23) + FxMul(self.m13, rhs.m33),
          FxMul(self.m21, rhs.m21) + FxMul(self.m22, rhs.m21) + FxMul(self.m23, rhs.m31),
          FxMul(self.m21, rhs.m22) + FxMul(self.m22, rhs.m22) + FxMul(self.m23, rhs.m32),
          FxMul(self.m21, rhs.m23) + FxMul(self.m22, rhs.m23) + FxMul(self.m23, rhs.m33),
          FxMul(self.m31, rhs.m21) + FxMul(self.m32, rhs.m21) + FxMul(self.m33, rhs.m31),
          FxMul(self.m31, rhs.m22) + FxMul(self.m32, rhs.m22) + FxMul(self.m33, rhs.m32),
          FxMul(self.m31, rhs.m23) + FxMul(self.m32, rhs.m23) + FxMul(self.m33, rhs.m33),
          FxMul(self.tx, rhs.m11) + FxMul(self.ty, rhs.m21) + FxMul(self.tz, rhs.m31) + rhs.tx,
          FxMul(self.tx, rhs.m12) + FxMul(self.ty, rhs.m22) + FxMul(self.tz, rhs.m32) + rhs.ty,
          FxMul(self.tx, rhs.m13) + FxMul(self.ty, rhs.m23) + FxMul(self.tz, rhs.m33) + rhs.tz)

----------------------------------------------------------------------------
(* euler_angles.rs: conversions to EulerAngles *)

\* Rust's unit value (), the result of a function that returns nothing
Unit == <<>>

\* the 0.9999 of the gimbal-lock test of the quaternion conversions
QUAT_LOCK == 9999

\* the 9.99999 of the gimbal-lock test of the matrix conversions; a
\* fixed-point value exceeds 9.99999 exactly when it exceeds 9.9999
MATRIX_LOCK == 99999

EulerAngles_from_obj_to_inertial_quaternion(q) ==
    LET sp == -2 * (FxMul(q.x, q.z) - FxMul(q.w, q.x))
    IN IF Abs(sp) > QUAT_LOCK
       THEN Euler(Atan2(FxMul(-q.x, q.z) + FxMul(q.w, q.y),
                        FX_ONE \div 2 - FxMul(q.y, q.y) - FxMul(q.z, q.z)),
                  FxMul(PI_OVER_2, sp),
                  0)
       ELSE Euler(Atan2(FxMul(q.x, q.z) + FxMul(q.w, q.y),
                        FX_ONE \div 2 - FxMul(q.x, q.x) - FxMul(q.y, q.y)),
                  Asin(sp),
                  Atan2(FxMul(q.x, q.y) + FxMul(q.w, q.z),
                        FX_ONE \div 2 - FxMul(q.x, q.x) - FxMul(q.z, q.z)))

\* the local `result` of from_inertial_to_obj_quaternion
inertial_to_obj_quaternion_result(q) ==
    LET sp == -2 * (FxMul(q.y, q.z) + FxMul(q.w, q.x))
    IN IF Abs(sp) > QUAT_LOCK
       THEN Euler(Atan2(FxMul(-q.x, q.z) - FxMul(q.w, q.y),
                        FX_ONE \div 2 - FxMul(q.y, q.y) - FxMul(q.z, q.z)),
                  FxMul(PI_OVER_2, sp),
                  0)
       ELSE Euler(Atan2(FxMul(q.x, q.z) - FxMul(q.w, q.y),
                        FX_ONE \div 2 - FxMul(q.x, q.x) - FxMul(q.y, q.y)),
                  Asin(sp),
                  Atan2(FxMul(q.x, q.y) - FxMul(q.w, q.z),
                        FX_ONE \div 2 - FxMul(q.x, q.x) - FxMul(q.z, q.z)))

\* the function has no return type: `result` is computed and dropped
EulerAngles_from_inertial_to_obj_quaternion(q) ==
    LET result == inertial_to_obj_quaternion_result(q)
    IN Unit

\* from_rotation_matrix with the arguments of the heading's atan2 exchanged
from_rotation_matrix_heading_swapped(m) ==
    LET sp == -m.m23
    IN IF Abs(sp) > MATRIX_LOCK
       THEN Euler(Atan2(-m.m31, m.m11), FxMul(PI_OVER_2, sp), 0)
       ELSE Euler(Atan2(m.m33, m.m13), Asin(sp), Atan2(m.m21, m.m22))

from_rotation_matrix(m) ==
    LET sp == -m.m23
    IN IF Abs(sp) > MATRIX_LOCK
       THEN Euler(Atan2(-m.m31, m.m11), FxMul(PI_OVER_2, sp), 0)
       ELSE Euler(Atan2(m.m13, m.m33), Asin(sp), Atan2(m.m21, m.m22))

from_world_to_obj_matrix(m) ==
    LET sp == -m.m23
    IN IF Abs(sp) > MATRIX_LOCK
       THEN Euler(Atan2(-m.m31, m.m11), FxMul(PI_OVER_2, sp), 0)
       ELSE Euler(Atan2(m.m13, m.m33), Asin(sp), Atan2(m.m21, m.m22))

obj_to_world_matrix_result(m) ==
    LET sp == -m.m32
    IN IF Abs(sp) > MATRIX_LOCK
       THEN Euler(Atan2(-m.m23, m.m11), FxMul(PI_OVER_2, sp), 0)
       ELSE Euler(Atan2(m.m31, m.m33), Asin(sp), Atan2(m.m12, m.m22))

\* the function has no return type: `result` is computed and dropped
from_obj_to_world_matrix(m) ==
    LET result == obj_to_world_matrix_result(m)
    IN Unit

----------------------------------------------------------------------------
(* Inputs *)

\* angles span this many quarter turns on either side of zero
MaxQuarter == 6

\* offsets from a quarter turn: 0, one step either side, 0.3 and 0.7 rad
AngleOffsets == {0, -1, 1, 3000, 7000}

AngleInputs == { k * PI_OVER_2 + d : k \in (-MaxQuarter)..MaxQuarter, d \in AngleOffsets }

HeadingInputs == { k * PI_OVER_2 + d : k \in -3..3, d \in {0, 3000} }

BankInputs == { k * PI_OVER_2 + d : k \in -2..2, d \in {0, 7000} }

\* unit quaternions: the axis quarter- and half-turns, the 3-4-5 rotations
\* about each axis, the thirds of a turn about the diagonals, and negations
QuatInputs ==
    { Quat(10000, 0, 0, 0), Quat(-10000, 0, 0, 0),
      Quat(0, 10000, 0, 0), Quat(0, 0, 10000, 0), Quat(0, 0, 0, -10000),
      Quat(8000, 6000, 0, 0), Quat(8000, 0, 6000, 0), Quat(8000, 0, 0, 6000),
      Quat(6000, -8000, 0, 0), Quat(-8000, -6000, 0, 0), Quat(-6000, 0, 0, 8000),
      Quat(0, 6000, 8000, 0), Quat(0, 6000, 0, -8000),
      Quat(5000, 5000, 5000, 5000), Quat(5000, -5000, 5000, -5000),
      Quat(-5000, -5000, -5000, -5000),
      Quat(2000, 4000, 4000, 8000), Quat(4000, -8000, 2000, 4000) }

\* interpolation parameters: below, at, between, at the end and above
TInputs == { -5000, 0, 2500, 5000, 10000, 15000 }

\* angles whose sine and cosine are 0, 0.6, 0.8 or 1 in magnitude: the
\* quarter turns and the angles of the 3-4-5 triangle beside them
GridQuarter == 2

GridOffsets == {0, 6435, 9273}

GridAngles == { k * PI_OVER_2 + d : k \in (-GridQuarter)..GridQuarter, d \in GridOffsets }

\* pitches from -pi/2 to past the upper pole
PitchInputs == { k * PI_OVER_2 + d : k \in -1..1, d \in GridOffsets }

EulerInputs == { Euler(h, p, b) : h \in GridAngles, p \in PitchInputs, b \in GridAngles }

VecInputs == { V3(10000, 0, 0), V3(0, 10000, 0), V3(10000, 20000, 30000), V3(-5000, 2500, 20000) }

\* axes of rotate_axis: zero, short, on and around the tolerance, unit, long
AxisInputs ==
    { V3(0, 0, 0), V3(5000, 0, 0), V3(0, 9900, 0), V3(0, 0, 9950),
      V3(10000, 0, 0), V3(0, 6000, 8000), V3(10050, 0, 0), V3(0, 10100, 0),
      V3(0, 12000, 16000), V3(20000, 0, 0) }

ThetaInputs == { 0, 12870, PI, -PI_OVER_2 }

ReceiverInputs == { Quat(FX_ONE, 0, 0, 0), Quat(8000, 0, 6000, 0) }

\* receivers of normalize: zero, unit, shorter and longer than unit
NormalizeInputs ==
    QuatInputs \cup
    { Quat(0, 0, 0, 0), Quat(10000, 10000, 10000, 10000), Quat(2500, 2500, 2500, 2500),
      Quat(12000, 16000, 0, 0), Quat(0, 0, 30000, 0), Quat(10000, 10000, 0, 0),
      Quat(-4000, 8000, -8000, 16000), Quat(20000, -20000, 20000, -20000),
      Quat(0, -3000, 0, 4000), Quat(10000, 20000, 0, -20000) }

CrossInputs ==
    VecInputs \cup
    { V3(0, 0, 0), V3(0, 0, 10000), V3(30000, 20000, 10000), V3(2500, -7500, 12500) }

\* orientations and positions of the Matrix3x4 constructors; the pitches
\* include both poles
MatEulerInputs ==
    { Euler(h, p, b) : h \in {0, 6435, PI_OVER_2 + 6435},
                       p \in {-PI_OVER_2, 0, 6435, PI_OVER_2},
                       b \in {0, 9273} }

PosInputs == { V3(0, 0, 0), V3(10000, -20000, 5000) }

\* affine transforms with whole entries, so that their products are exact:
\* the identity, a translation, a scale, a quarter turn about z with a
\* translation, and two transforms with no zero row entry
Mat34Inputs ==
    { indentity,
      Mat34(10000, 0, 0,  0, 10000, 0,  0, 0, 10000,  10000, -20000, 30000),
      Mat34(20000, 0, 0,  0, 30000, 0,  0, 0, -10000,  0, 0, 0),
      Mat34(0, 10000, 0,  -10000, 0, 0,  0, 0, 10000,  0, 10000, 0),
      Mat34(10000, 20000, -10000,  30000, 10000, 20000,  -20000, 10000, 10000,  10000, 0, -10000),
      Mat34(20000, -10000, 10000,  10000, 10000, 30000,  10000, 20000, -10000,  0, 20000, 10000) }

----------------------------------------------------------------------------
(* Operations *)

Init ==
    /\ op = "idle"
    /\ args = <<>>
    /\ ret = <<>>

Idle == op = "idle"

WrapPi ==
    /\ Idle
    /\ \E a \in AngleInputs :
        /\ op' = "wrap_pi"
        /\ args' = [a |-> a]
        /\ ret' = wrap_pi(a)

Canonize ==
    /\ Idle
    /\ \E h \in HeadingInputs, p \in AngleInputs, b \in BankInputs :
        /\ op' = "canonize"
        /\ args' = Euler(h, p, b)
        /\ ret' = canonize(Euler(h, p, b))

Slerp ==
    /\ Idle
    /\ \E a \in QuatInputs, b \in QuatInputs, t \in TInputs :
        /\ op' = "slerp"
        /\ args' = [a |-> a, b |-> b, t |-> t]
        /\ ret' = slerp(a, b, t)

FromOrientation ==
    /\ Idle
    /\ \E e \in EulerInputs :
        /\ op' = "from_orientation"
        /\ args' = [orientation |-> e]
        /\ ret' = from_orientation(e)

RotFromInertialToObjQuaternion ==
    /\ Idle
    /\ \E q \in QuatInputs :
        /\ op' = "RotationMatrix::from_inertial_to_obj_quaternion"
        /\ args' = [q |-> q]
        /\ ret' = RotationMatrix_from_inertial_to_obj_quaternion(q)

RotFromObjToInertialQuaternion ==
    /\ Idle
    /\ \E q \in QuatInputs :
        /\ op' = "RotationMatrix::from_obj_to_inertial_quaternion"
        /\ args' = [q |-> q]
        /\ ret' = RotationMatrix_from_obj_to_inertial_quaternion(q)

EulerFromObjToInertialQuaternion ==
    /\ Idle
    /\ \E q \in QuatInputs :
        /\ op' = "EulerAngles::from_obj_to_inertial_quaternion"
        /\ args' = [q |-> q]
        /\ ret' = EulerAngles_from_obj_to_inertial_quaternion(q)

EulerFromInertialToObjQuaternion ==
    /\ Idle
    /\ \E q \in QuatInputs :
        /\ op' = "EulerAngles::from_inertial_to_obj_quaternion"
        /\ args' = [q |-> q]
        /\ ret' = EulerAngles_from_inertial_to_obj_quaternion(q)

\* the operations that hand the caller a RotationMatrix
RotationOps ==
    { "from_orientation",
      "RotationMatrix::from_inertial_to_obj_quaternion",
      "RotationMatrix::from_obj_to_inertial_quaternion" }

\* the caller converts the matrix it was just handed; made records how the
\* matrix was made
FromRotationMatrix ==
    /\ op \in RotationOps
    /\ op' = "from_rotation_matrix"
    /\ args' = [m |-> ret, made |-> op, from |-> args]
    /\ ret' = from_rotation_matrix(ret)

\* the caller rotates a vector by the matrix it was just handed
InertialToObj ==
    /\ op \in RotationOps
    /\ \E v \in VecInputs :
        /\ op' = "inertial_to_obj"
        /\ args' = [m |-> ret, v |-> v, back |-> FALSE, orig |-> v]
        /\ ret' = inertial_to_obj(ret, v)

ObjToInertial ==
    /\ op \in RotationOps
    /\ \E v \in VecInputs :
        /\ op' = "obj_to_inertial"
        /\ args' = [m |-> ret, v |-> v, back |-> FALSE, orig |-> v]
        /\ ret' = obj_to_inertial(ret, v)

\* the caller rotates the vector back with the same matrix
InertialToObjBack ==
    /\ op = "obj_to_inertial"
    /\ ~args.back
    /\ op' = "inertial_to_obj"
    /\ args' = [m |-> args.m, v |-> ret, back |-> TRUE, orig |-> args.orig]
    /\ ret' = inertial_to_obj(args.m, ret)

ObjToInertialBack ==
    /\ op = "inertial_to_obj"
    /\ ~args.back
    /\ op' = "obj_to_inertial"
    /\ args' = [m |-> args.m, v |-> ret, back |-> TRUE, orig |-> args.orig]
    /\ ret' = obj_to_inertial(args.m, ret)

QuaternionMul ==
    /\ Idle
    /\ \E a \in QuatInputs, b \in QuatInputs :
        /\ op' = "Quaternion::mul"
        /\ args' = [a |-> a, b |-> b]
        /\ ret' = Quaternion_mul(a, b)

RotateAxis ==
    /\ Idle
    /\ \E self \in ReceiverInputs, axis \in AxisInputs, theta \in ThetaInputs :
        /\ op' = "rotate_axis"
        /\ args' = [self |-> self, axis |-> axis, theta |-> theta]
        /\ ret' = rotate_axis(self, axis, theta)

Normalize ==
    /\ Idle
    /\ \E self \in NormalizeInputs :
        /\ op' = "normalize"
        /\ args' = [self |-> self]
        /\ ret' = normalize(self)

Cross ==
    /\ Idle
    /\ \E a \in CrossInputs, b \in CrossInputs :
        /\ op' = "cross"
        /\ args' = [a |-> a, b |-> b]
        /\ ret' = cross(a, b)

FromLocalToParentEuler ==
    /\ Idle
    /\ \E pos \in PosInputs, orient \in MatEulerInputs :
        /\ op' = "from_local_to_parent_euler"
        /\ args' = [pos |-> pos, orient |-> orient]
        /\ ret' = from_local_to_parent_euler(pos, orient)

FromParentToLocalEuler ==
    /\ Idle
    /\ \E pos \in PosInputs, orient \in MatEulerInputs :
        /\ op' = "from_parent_to_local_euler"
        /\ args' = [pos |-> pos, orient |-> orient]
        /\ ret' = from_parent_to_local_euler(pos, orient)

\* the operations that hand the caller a Matrix3x4 with a rotation in it
Matrix3x4Ops == { "from_local_to_parent_euler", "from_parent_to_local_euler" }

\* the caller converts the matrix it was just handed
FromWorldToObjMatrix ==
    /\ op \in Matrix3x4Ops
    /\ op' = "from_world_to_obj_matrix"
    /\ args' = [m |-> ret, made |-> op, from |-> args]
    /\ ret' = from_world_to_obj_matrix(ret)

FromObjToWorldMatrix ==
    /\ op \in Matrix3x4Ops
    /\ op' = "from_obj_to_world_matrix"
    /\ args' = [m |-> ret, made |-> op, from |-> args]
    /\ ret' = from_obj_to_world_matrix(ret)

Matrix3x4Mul ==
    /\ Idle
    /\ \E a \in Mat34Inputs, b \in Mat34Inputs :
        /\ op' = "Matrix3x4::mul"
        /\ args' = [a |-> a, b |-> b]
        /\ ret' = Matrix3x4_mul(a, b)

V3MulMatrix3x4 ==
    /\ Idle
    /\ \E v \in VecInputs, m \in Mat34Inputs :
        /\ op' = "V3::mul"
        /\ args' = [v |-> v, m |-> m]
        /\ ret' = V3_mul_Matrix3x4(v, m)

\* the caller takes the result; the library keeps nothing between calls
Return ==
    /\ ~Idle
    /\ op' = "idle"
    /\ args' = <<>>
    /\ ret' = <<>>

Next ==
    \/ WrapPi
    \/ Canonize
    \/ Slerp
    \/ FromOrientation
    \/ RotFromInertialToObjQuaternion
    \/ RotFromObjToInertialQuaternion
    \/ EulerFromObjToInertialQuaternion
    \/ EulerFromInertialToObjQuaternion
    \/ FromRotationMatrix
    \/ InertialToObj
    \/ ObjToInertial
    \/ InertialToObjBack
    \/ ObjToInertialBack
    \/ QuaternionMul
    \/ RotateAxis
    \/ Normalize
    \/ Cross
    \/ FromLocalToParentEuler
    \/ FromParentToLocalEuler
    \/ FromWorldToObjMatrix
    \/ FromObjToWorldMatrix
    \/ Matrix3x4Mul
    \/ V3MulMatrix3x4
    \/ Return

Spec == Init /\ [][Next]_vars

----------------------------------------------------------------------------
(* Claims *)

InHalfOpenPi(a) == -PI < a /\ a <= PI

SameModTurn(a, b) == (a - b) % PI2 = 0

\* C1: wrap_pi(a) lies in (-pi, pi] and differs from a by a whole number of
\* turns; an input already in (-pi, pi] comes back unchanged, and
\* wrap_pi(3 pi) = wrap_pi(-3 pi) = pi.
C1_WrapPiRange ==
    op = "wrap_pi" =>
        /\ InHalfOpenPi(ret)
        /\ SameModTurn(ret, args.a)
        /\ (InHalfOpenPi(args.a) => ret = args.a)
        /\ (args.a \in {3 * PI, -3 * PI} => ret = PI)

\* C2: after canonize, pitch is in [-pi/2, pi/2] and heading, bank are in
\* (-pi, pi].
C2_CanonicalRanges ==
    op = "canonize" =>
        /\ -PI_OVER_2 <= ret.pitch /\ ret.pitch <= PI_OVER_2
        /\ InHalfOpenPi(ret.heading)
        /\ InHalfOpenPi(ret.bank)

\* C3: when the wrapped and reflected pitch is within 1e-4 of a pole,
\* canonize leaves bank exactly 0 and heading equal to heading + bank
\* wrapped into (-pi, pi]; {0.3, pi/2, 0.7} gives bank 0 and heading 1.0.
C3_GimbalFold ==
    (op = "canonize" /\ Abs(ret.pitch) > PI_OVER_2 - CANONIZE_TOL) =>
        /\ ret.bank = 0
        /\ SameModTurn(ret.heading, args.heading + args.bank)
        /\ InHalfOpenPi(ret.heading)
        /\ (args = Euler(3000, PI_OVER_2, 7000) => ret.heading = 10000)

\* C4: slerp(a, b, t) is a, all four components unchanged, when t <= 0 and
\* is b, all four components unchanged, when t >= 1.
C4_SlerpEndpoints ==
    op = "slerp" =>
        /\ (args.t <= 0 => ret = args.a)
        /\ (args.t >= FX_ONE => ret = args.b)

C4_Witness ==
    /\ op = "slerp"
    /\ args.t = FX_ONE
    /\ args.a # args.b
    /\ dot(args.a, args.b) < 0
    /\ ret = args.b

\* C5: for 0 < t < 1 and dot(a, b) < 0 slerp follows the shorter arc: the
\* result is k0 * a + k1 * (-b), up to an overall sign, with k0 and k1 the
\* weights computed from the negated dot.
C5_SlerpShortArc ==
    (op = "slerp" /\ 0 < args.t /\ args.t < FX_ONE /\ dot(args.a, args.b) < 0) =>
        LET k == SlerpWeights(-dot(args.a, args.b), args.t)
            short == Blend(k[1], args.a, k[2], QuatNeg(args.b))
        IN ret = short \/ ret = QuatNeg(short)

\* the matrix -> Euler conversion of the RotationMatrix built from q
MatrixEulerOI(q) == from_rotation_matrix(RotationMatrix_from_obj_to_inertial_quaternion(q))

MatrixEulerIO(q) == from_rotation_matrix(RotationMatrix_from_inertial_to_obj_quaternion(q))

\* C6: in each direction the direct quaternion -> Euler conversion returns
\* the Euler angles that the matrix -> Euler conversion gives for the
\* RotationMatrix built from the same quaternion in that direction (so its
\* sin(pitch) is -m23 of that matrix), and both directions return the triple.
C6_QuatEulerIsMatrixEuler ==
    /\ (op = "EulerAngles::from_obj_to_inertial_quaternion" =>
            ret = MatrixEulerOI(args.q))
    /\ (op = "EulerAngles::from_inertial_to_obj_quaternion" =>
            /\ DOMAIN ret = {"heading", "pitch", "bank"}
            /\ ret = MatrixEulerIO(args.q))

\* canonical and clear of the gimbal-lock zone
CanonicalRegular(e) ==
    /\ InHalfOpenPi(e.heading)
    /\ InHalfOpenPi(e.bank)
    /\ Abs(e.pitch) < PI_OVER_2 - CANONIZE_TOL

\* C7: a canonical, not gimbal-locked e converted by from_orientation and
\* back by from_rotation_matrix comes back with the same heading, pitch and
\* bank.
C7_RoundTrip ==
    (/\ op = "from_rotation_matrix"
     /\ args.made = "from_orientation"
     /\ CanonicalRegular(args.from.orientation)) =>
        ret = args.from.orientation

C7_Witness ==
    /\ op = "from_rotation_matrix"
    /\ args.made = "from_orientation"
    /\ args.from.orientation = Euler(PI - 6435, -9273, -PI_OVER_2 - 6435)
    /\ ret = args.from.orientation

\* within rounding of two matrix-vector products
Near(a, b) == Abs(a - b) <= 5

\* C8: inertial_to_obj gives the dot products of v with the columns of M,
\* obj_to_inertial those with the rows of M, so for an orthonormal M each
\* undoes the other.
C8_VectorRotation ==
    /\ (op = "inertial_to_obj" =>
            LET m == args.m
                v == args.v
            IN ret = V3(FxMul(m.m11, v.x) + FxMul(m.m21, v.y) + FxMul(m.m31, v.z),
                        FxMul(m.m12, v.x) + FxMul(m.m22, v.y) + FxMul(m.m32, v.z),
                        FxMul(m.m13, v.x) + FxMul(m.m23, v.y) + FxMul(m.m33, v.z)))
    /\ (op = "obj_to_inertial" =>
            LET m == args.m
                v == args.v
            IN ret = V3(FxMul(m.m11, v.x) + FxMul(m.m12, v.y) + FxMul(m.m13, v.z),
                        FxMul(m.m21, v.x) + FxMul(m.m22, v.y) + FxMul(m.m23, v.z),
                        FxMul(m.m31, v.x) + FxMul(m.m32, v.y) + FxMul(m.m33, v.z)))
    /\ (op \in {"inertial_to_obj", "obj_to_inertial"} /\ args.back =>
            /\ Near(ret.x, args.orig.x)
            /\ Near(ret.y, args.orig.y)
            /\ Near(ret.z, args.orig.z))

\* C9: q and -q give entry for entry the same RotationMatrix in both
\* directions and the same Euler angles from the quaternion -> Euler
\* conversion.
C9_DoubleCover ==
    /\ (op = "RotationMatrix::from_inertial_to_obj_quaternion" =>
            ret = RotationMatrix_from_inertial_to_obj_quaternion(QuatNeg(args.q)))
    /\ (op = "RotationMatrix::from_obj_to_inertial_quaternion" =>
            ret = RotationMatrix_from_obj_to_inertial_quaternion(QuatNeg(args.q)))
    /\ (op = "EulerAngles::from_obj_to_inertial_quaternion" =>
            ret = EulerAngles_from_obj_to_inertial_quaternion(QuatNeg(args.q)))

C9_Witness ==
    /\ op = "RotationMatrix::from_obj_to_inertial_quaternion"
    /\ args.q = Quat(4000, -8000, 2000, 4000)
    /\ ret.m12 # ret.m21
    /\ ret = RotationMatrix_from_obj_to_inertial_quaternion(Quat(-4000, 8000, -2000, -4000))

Transpose(m) ==
    Rot(m.m11, m.m21, m.m31, m.m12, m.m22, m.m32, m.m13, m.m23, m.m33)

\* transpose(m) * m is the identity
Orthonormal(m) ==
    LET one == FX_ONE * FX_ONE
    IN /\ m.m11 * m.m11 + m.m21 * m.m21 + m.m31 * m.m31 = one
       /\ m.m12 * m.m12 + m.m22 * m.m22 + m.m32 * m.m32 = one
       /\ m.m13 * m.m13 + m.m23 * m.m23 + m.m33 * m.m33 = one
       /\ m.m11 * m.m12 + m.m21 * m.m22 + m.m31 * m.m32 = 0
       /\ m.m11 * m.m13 + m.m21 * m.m23 + m.m31 * m.m33 = 0
       /\ m.m12 * m.m13 + m.m22 * m.m23 + m.m32 * m.m33 = 0

\* C10: every RotationMatrix from from_orientation (pitch at the poles
\* included) and from the two quaternion constructors is orthonormal, and
\* the two quaternion directions give transposes of each other.
C10_Orthonormal ==
    /\ (op \in RotationOps => Orthonormal(ret))
    /\ (op = "RotationMatrix::from_inertial_to_obj_quaternion" =>
            ret = Transpose(RotationMatrix_from_obj_to_inertial_quaternion(args.q)))

C10_Witness ==
    /\ op = "from_orientation"
    /\ args.orientation = Euler(6435, PI_OVER_2, -9273)
    /\ Orthonormal(ret)

\* C11: a * b is the Hamilton product: w = a.w b.w - a_v . b_v and vector
\* part a.w b_v + b.w a_v + a_v x b_v, so that i * j = k and j * i = -k.
C11_HamiltonProduct ==
    op = "Quaternion::mul" =>
        LET a == args.a
            b == args.b
        IN /\ ret.w = FxMul(a.w, b.w) - FxMul(a.x, b.x) - FxMul(a.y, b.y) - FxMul(a.z, b.z)
           /\ ret.x = FxMul(a.w, b.x) + FxMul(b.w, a.x) + FxMul(a.y, b.z) - FxMul(a.z, b.y)
           /\ ret.y = FxMul(a.w, b.y) + FxMul(b.w, a.y) + FxMul(a.z, b.x) - FxMul(a.x, b.z)
           /\ ret.z = FxMul(a.w, b.z) + FxMul(b.w, a.z) + FxMul(a.x, b.y) - FxMul(a.y, b.x)
           /\ (a = Quat(0, FX_ONE, 0, 0) /\ b = Quat(0, 0, FX_ONE, 0) => ret = Quat(0, 0, 0, FX_ONE))
           /\ (a = Quat(0, 0, FX_ONE, 0) /\ b = Quat(0, FX_ONE, 0, 0) => ret = Quat(0, 0, 0, -FX_ONE))

\* C12: rotate_axis aborts, with the receiver untouched, whenever the axis
\* magnitude differs from 1 by 0.01 or more in either direction (the zero
\* vector included), and goes on only when it is within 0.01 of 1.
C12_RotateAxisFlagsNonUnit ==
    op = "rotate_axis" =>
        /\ ret.panicked <=> Abs(mag(args.axis) - FX_ONE) >= AXIS_TOL
        /\ ret.panicked => ret.q = args.self

QuatNormSq(q) == FxMul(q.w, q.w) + FxMul(q.x, q.x) + FxMul(q.y, q.y) + FxMul(q.z, q.z)

Sign(a) == IF a > 0 THEN 1 ELSE IF a < 0 THEN -1 ELSE 0

\* r is q scaled by the positive number 1 / m
SameDirection(r, q, m) ==
    /\ Sign(r.w) = Sign(q.w) /\ Sign(r.x) = Sign(q.x)
    /\ Sign(r.y) = Sign(q.y) /\ Sign(r.z) = Sign(q.z)
    /\ Near(FxMul(r.w, m), q.w) /\ Near(FxMul(r.x, m), q.x)
    /\ Near(FxMul(r.y, m), q.y) /\ Near(FxMul(r.z, m), q.z)

\* C13: normalize leaves a quaternion of magnitude zero unchanged; any other
\* one has its four components multiplied by the same factor 1 / magnitude,
\* so the result has unit norm and the direction of the receiver.
C13_Normalize ==
    op = "normalize" =>
        LET q == args.self
            m == Sqrt(QuatNormSq(q))
            f == FxDiv(FX_ONE, m)
        IN IF m = 0
           THEN ret = q
           ELSE /\ ret = Quat(FxMul(q.w, f), FxMul(q.x, f), FxMul(q.y, f), FxMul(q.z, f))
                /\ Near(QuatNormSq(ret), FX_ONE)
                /\ SameDirection(ret, q, m)

C13_Witness ==
    /\ op = "normalize"
    /\ Sqrt(QuatNormSq(args.self)) \notin {0, FX_ONE}
    /\ ret # args.self

\* C14: cross(a, b) is (a.y b.z - a.z b.y, a.z b.x - a.x b.z,
\* a.x b.y - a.y b.x), hence cross(a, b) = -cross(b, a) and cross(a, a) = 0;
\* the crate's test has cross((1, 2, 3), (3, 2, 1)) = (-4, 8, -4).
C14_Cross ==
    op = "cross" =>
        LET a == args.a
            b == args.b
            ba == cross(b, a)
        IN /\ ret.x = FxMul(a.y, b.z) - FxMul(a.z, b.y)
           /\ ret.y = FxMul(a.z, b.x) - FxMul(a.x, b.z)
           /\ ret.z = FxMul(a.x, b.y) - FxMul(a.y, b.x)
           /\ ret = V3(-ba.x, -ba.y, -ba.z)
           /\ (a = b => ret = V3(0, 0, 0))
           /\ (a = V3(10000, 20000, 30000) /\ b = V3(30000, 20000, 10000)
                  => ret = V3(-40000, 80000, -40000))

C14_Witness ==
    /\ op = "cross"
    /\ args.a = V3(10000, 20000, 30000)
    /\ args.b = V3(30000, 20000, 10000)
    /\ ret = V3(-40000, 80000, -40000)

\* sp is within the near-unity tolerance of +1 or -1: |sp| > 0.99999
GimbalLocked(sp) == Abs(sp) > 9999

\* C15: a matrix -> Euler conversion of a matrix whose sin(pitch) entry is
\* gimbal-locked returns bank 0, pitch (pi/2) * sp and the heading
\* atan2(-m31, m11) (mirrored entries for the object -> world matrix); it
\* returns the asin / atan2 angles only below the threshold.
C15_GimbalLockBranch ==
    /\ op \in {"from_rotation_matrix", "from_world_to_obj_matrix"} =>
           LET m == args.m
               sp == -m.m23
           IN IF GimbalLocked(sp)
              THEN ret = Euler(Atan2(-m.m31, m.m11), FxMul(PI_OVER_2, sp), 0)
              ELSE ret = Euler(Atan2(m.m13, m.m33), Asin(sp), Atan2(m.m21, m.m22))
    /\ op = "from_obj_to_world_matrix" =>
           LET m == args.m
               sp == -m.m32
           IN /\ DOMAIN ret = {"heading", "pitch", "bank"}
              /\ IF GimbalLocked(sp)
                 THEN ret = Euler(Atan2(-m.m23, m.m11), FxMul(PI_OVER_2, sp), 0)
                 ELSE ret = Euler(Atan2(m.m31, m.m33), Asin(sp), Atan2(m.m12, m.m22))

\* row i of the linear part of a, column j of the linear part of b
Row(a, i) ==
    CASE i = 1 -> <<a.m11, a.m12, a.m13>>
      [] i = 2 -> <<a.m21, a.m22, a.m23>>
      [] i = 3 -> <<a.m31, a.m32, a.m33>>

Col(b, j) ==
    CASE j = 1 -> <<b.m11, b.m21, b.m31>>
      [] j = 2 -> <<b.m12, b.m22, b.m32>>
      [] j = 3 -> <<b.m13, b.m23, b.m33>>

Dot3(r, c) == FxMul(r[1], c[1]) + FxMul(r[2], c[2]) + FxMul(r[3], c[3])

Linear(m) ==
    << <<m.m11, m.m12, m.m13>>, <<m.m21, m.m22, m.m23>>, <<m.m31, m.m32, m.m33>> >>

\* C16: every entry m_ij of a * b is the dot product of row i of a with
\* column j of b, the identity is neutral on both sides, and
\* (v * a) * b = v * (a * b) for every vector v.
C16_MatrixProduct ==
    op = "Matrix3x4::mul" =>
        LET a == args.a
            b == args.b
        IN /\ \A i \in 1..3, j \in 1..3 : Linear(ret)[i][j] = Dot3(Row(a, i), Col(b, j))
           /\ (b = indentity => ret = a)
           /\ (a = indentity => ret = b)
           /\ \A v \in VecInputs :
                  V3_mul_Matrix3x4(V3_mul_Matrix3x4(v, a), b) = V3_mul_Matrix3x4(v, ret)

====
